---- MODULE Spec2Model ----
(***************************************************************************)
(* A model of package namespace (relvacode/go-namespace, src/namespace.go,  *)
(* the current version of the package: lines 1-278).                        *)
(*                                                                         *)
(* Go values are modelled as the reflect.Value the package walks:          *)
(*   [k |-> "Invalid"]                          the zero reflect.Value      *)
(*   [k |-> "String", s |-> ...]                a string                    *)
(*   [k |-> "Int", n |-> ...]                   an int                      *)
(*   [k |-> "Float64", units, tenths]           a float64 units.tenths      *)
(*   [k |-> "Bool", b |-> ...]                  a bool                      *)
(*   [k |-> "Interface", elem |-> v]            an interface-typed slot;    *)
(*                                              elem Invalid = nil          *)
(*   [k |-> "Ptr", isNil, elem]                 a pointer; for a nil        *)
(*                                              pointer elem is the zero    *)
(*                                              value of the pointee type   *)
(*   [k |-> "Map", keyKind, isNil, entries]     a map; entries is a         *)
(*                                              function key -> value (the  *)
(*                                              keys of a map[int]T are     *)
(*                                              written as their text)      *)
(*   [k |-> "Struct", fields, namespacer, namer]                            *)
(*       fields is the sequence of the struct's fields in declaration      *)
(*       order, each [Name, Tag, Anonymous, PkgPath, val]: the             *)
(*       reflect.StructField and the value of v.Field(i); namespacer and   *)
(*       namer tell whether the type implements Namespacer / Namer.        *)
(*   [k |-> "Panic"]                            a run-time panic raised    *)
(*                                              while computing a value    *)
(***************************************************************************)
EXTENDS Integers, Sequences, FiniteSets, TLC

VARIABLES root, namespaces, pc, res, nms, str, num

vars == <<root, namespaces, pc, res, nms, str, num>>

----------------------------------------------------------------------------
(* reflect.Value *)

Invalid == [k |-> "Invalid"]

Panic == [k |-> "Panic"]

StrV(s) == [k |-> "String", s |-> s]

IntV(n) == [k |-> "Int", n |-> n]

FloatV(units, tenths) == [k |-> "Float64", units |-> units, tenths |-> tenths]

BoolV(b) == [k |-> "Bool", b |-> b]

\* the same number as a value of another kind: int8(n), uint(n), float32(x)
Sized(kind, v) == [v EXCEPT !.k = kind]

\* case reflect.Int, reflect.Int8, reflect.Int16, reflect.Int32, reflect.Int64
IntKinds == {"Int", "Int8", "Int16", "Int32", "Int64"}

\* case reflect.Float32, reflect.Float64
FloatKinds == {"Float32", "Float64"}

\* the unsigned kinds, which no case of the package names
UintKinds == {"Uint", "Uint8", "Uint16", "Uint32", "Uint64"}

Iface(v) == [k |-> "Interface", elem |-> v]

NilIface == Iface(Invalid)

PtrTo(v) == [k |-> "Ptr", isNil |-> FALSE, elem |-> v]

NilPtr(zero) == [k |-> "Ptr", isNil |-> TRUE, elem |-> zero]

MapOf(entries) == [k |-> "Map", keyKind |-> "String", isNil |-> FALSE, entries |-> entries]

NilMap == [k |-> "Map", keyKind |-> "String", isNil |-> TRUE, entries |-> <<>>]

IntMap(entries) == [k |-> "Map", keyKind |-> "Int", isNil |-> FALSE, entries |-> entries]

\* map[interface{}]T with strings for keys
IfaceMap(entries) == [k |-> "Map", keyKind |-> "Interface", isNil |-> FALSE, entries |-> entries]

Fld(name, tag, anonymous, v) == [Name |-> name, Tag |-> tag, Anonymous |-> anonymous, PkgPath |-> "", val |-> v]

Unexported(name, v) == [Name |-> name, Tag |-> "", Anonymous |-> FALSE, PkgPath |-> "namespace", val |-> v]

Struct(fields) == [k |-> "Struct", fields |-> fields, namespacer |-> FALSE, namer |-> FALSE]

Kind(v) == v.k

IsValid(v) == v.k # "Invalid"

\* reflect.Value.IsNil, for the kinds the package calls it on
IsNil(v) ==
    CASE v.k = "Interface" -> v.elem.k = "Invalid"
      [] v.k \in {"Ptr", "Map"} -> v.isNil
      [] OTHER -> FALSE

\* reflect.Value.Elem: the value an interface holds or a pointer points to;
\* the zero Value for a nil interface or a nil pointer
Elem(v) ==
    CASE v.k = "Interface" -> v.elem
      [] v.k = "Ptr" -> IF v.isNil THEN Invalid ELSE v.elem
      [] OTHER -> Panic

\* for v.Kind() == reflect.Ptr { v = v.Elem() }
RECURSIVE Deref(_)
Deref(v) == IF v.k = "Ptr" THEN Deref(Elem(v)) ELSE v

\* reflect.Value.MapIndex(reflect.ValueOf(name)): the entry under a string key,
\* the zero Value when there is none (or the map is nil); a string key is
\* assignable to the key types string and interface{}, and to no other:
\* reflect panics
MapIndex(v, name) ==
    IF v.keyKind \notin {"String", "Interface"} THEN Panic
    ELSE IF name \in DOMAIN v.entries THEN v.entries[name]
    ELSE Invalid

----------------------------------------------------------------------------
(* Field, Get *)

\* Field as it would be if the ns tag were not read
FieldIgnoringTag(f) == [name |-> f.Name, mapped |-> FALSE]

\* Field returns the namespace name for a given struct field, and whether the
\* ns tag set it
Field(f) ==
    IF f.Tag # "" THEN [name |-> f.Tag, mapped |-> TRUE]
    ELSE [name |-> f.Name, mapped |-> FALSE]

\* the test as it would be if only the tag `-` passed a field through
TransparentByTagOnly(f) == Field(f).name = "-"

\* (f.Anonymous && !mapped) || ns == "-": the field is passed through
Transparent(f) == (f.Anonymous /\ ~Field(f).mapped) \/ Field(f).name = "-"

\* Get gets a value from a given value using the given name. GetStruct is
\* the loop over the struct's fields, from field i on.
RECURSIVE Get(_, _), GetStruct(_, _, _)

\* Get as it would be without the case of reflect.Map
GetWithoutMaps(v0, name) ==
    LET v1 == IF v0.k = "Interface" THEN Elem(v0) ELSE v0
        v == Deref(v1)
    IN  CASE v.k = "Struct" -> GetStruct(v, name, 1)
          [] OTHER -> Invalid

Get(v0, name) ==
    LET v1 == IF v0.k = "Interface" THEN Elem(v0) ELSE v0
        v == Deref(v1)
    IN  CASE v.k = "Struct" -> GetStruct(v, name, 1)
          [] v.k = "Map" -> MapIndex(v, name)
          [] OTHER -> Invalid

GetStruct(v, name, i) ==
    IF i > Len(v.fields) THEN Invalid
    ELSE LET f == v.fields[i]
             nV == IF Transparent(f) THEN Get(f.val, name) ELSE Invalid
         IN  IF f.PkgPath # "" THEN GetStruct(v, name, i + 1)
             ELSE IF nV.k = "Panic" THEN Panic
             ELSE IF IsValid(nV) THEN nV
             ELSE IF Field(f).name = name THEN f.val
             ELSE GetStruct(v, name, i + 1)

----------------------------------------------------------------------------
(* strings, and fuzzy.MatchFold of github.com/renstrom/fuzzysearch *)

\* the runes of the strings the model uses as names and keys
Runes(s) ==
    CASE s = "Key" -> <<"K", "e", "y">>
      [] s = "Keyy" -> <<"K", "e", "y", "y">>
      [] s = "key" -> <<"k", "e", "y">>
      [] s = "Ke" -> <<"K", "e">>
      [] s = "Child" -> <<"C", "h", "i", "l", "d">>
      [] s = "Sub" -> <<"S", "u", "b">>
      [] s = "rename" -> <<"r", "e", "n", "a", "m", "e">>
      [] s = "Embedded" -> <<"E", "m", "b", "e", "d", "d", "e", "d">>
      [] s = "hidden" -> <<"h", "i", "d", "d", "e", "n">>
      [] s = "Hook" -> <<"H", "o", "o", "k">>
      [] s = "-" -> <<"-">>
      [] s = "" -> <<>>
      [] OTHER -> <<s>>

\* unicode.ToLower on the runes above
ToLower(r) ==
    CASE r = "K" -> "k"
      [] r = "C" -> "c"
      [] r = "S" -> "s"
      [] r = "E" -> "e"
      [] r = "H" -> "h"
      [] r = "A" -> "a"
      [] r = "B" -> "b"
      [] r = "D" -> "d"
      [] OTHER -> r

MinOf(S) == CHOOSE x \in S : \A y \in S : x <= y

\* the Outer loop of fuzzy's match: every rune of source is found in target,
\* in order, each search starting after the previous find
RECURSIVE matchRunes(_, _)
matchRunes(source, target) ==
    IF source = <<>> THEN TRUE
    ELSE LET hits == {i \in 1..Len(target) : ToLower(source[1]) = ToLower(target[i])}
         IN  IF hits = {} THEN FALSE
             ELSE matchRunes(Tail(source), SubSeq(target, MinOf(hits) + 1, Len(target)))

\* fuzzy.MatchFold(source, target): source fuzzy-matches target, ignoring case
MatchFold(source, target) ==
    LET lenDiff == Len(Runes(target)) - Len(Runes(source))
    IN  IF lenDiff < 0 THEN FALSE
        ELSE IF lenDiff = 0 /\ source = target THEN TRUE
        ELSE matchRunes(Runes(source), Runes(target))

----------------------------------------------------------------------------
(* []string: a slice is a window [arr, len, cap] on a backing array of the  *)
(* heap H (a sequence of arrays); append writes in place while the capacity *)
(* lasts, and two slices of one array share what is written                 *)

NilSlice == [arr |-> 0, len |-> 0, cap |-> 0]

EmptyHeap == <<>>

\* the capacity append grows a full []string to (runtime growslice, below
\* the 256-element threshold): double, or what is needed if that is more
GrowCap(oldCap, needed) == IF needed > 2 * oldCap THEN needed ELSE 2 * oldCap

\* append(s, x): [s |-> the new slice, H |-> the heap after]
AppendStr(H, s, x) ==
    IF s.len < s.cap
    THEN [s |-> [s EXCEPT !.len = s.len + 1],
          H |-> [H EXCEPT ![s.arr] = [@ EXCEPT ![s.len + 1] = x]]]
    ELSE LET newCap == GrowCap(s.cap, s.len + 1)
             arr == [i \in 1..newCap |->
                        IF i <= s.len THEN H[s.arr][i]
                        ELSE IF i = s.len + 1 THEN x ELSE ""]
         IN  [s |-> [arr |-> Len(H) + 1, len |-> s.len + 1, cap |-> newCap],
              H |-> Append(H, arr)]

\* the strings a slice shows
ReadSlice(H, s) == [i \in 1..s.len |-> H[s.arr][i]]

----------------------------------------------------------------------------
(* Names, names *)

\* the orders in which a range over a Go map may visit the keys S
RECURSIVE Orders(_)
Orders(S) ==
    IF S = {} THEN {<<>>}
    ELSE UNION {{<<x>> \o p : p \in Orders(S \ {x})} : x \in S}

\* reflect.New(t) for a nil map or nil pointer v: a pointer to the zero value
\* of t, where t is the map's type, or the pointer's element type
New(v) == IF v.k = "Ptr" THEN PtrTo(v.elem) ELSE PtrTo(v)

\* v.Interface().(Namer)
ImplementsNamer(v) == v.k = "Struct" /\ v.namer

\* the Names method of a type of the caller's: it returns one name, "Hook",
\* prepended with prev as the interface asks
NamerNames(v, prev, H) ==
    LET a == AppendStr(H, prev, "Hook")
    IN  [ns |-> <<a.s>>, H |-> a.H, panic |-> FALSE]

\* v.MapKeys(), less the keys the loop skips (k.Kind() != reflect.String)
StringKeys(v) == IF v.keyKind = "String" THEN DOMAIN v.entries ELSE {}

\* names(v, prev): the set of outcomes [ns, H, panic] the call can have, one
\* per order of the map ranges; ns is the [][]string returned, as slices on
\* the heap H. namesStruct and namesMap are the two loops, from field i and
\* over the remaining keys, with the ns built so far.
RECURSIVE names(_, _, _), namesStruct(_, _, _, _, _), namesMap(_, _, _, _, _)
names(v0, prev, H) ==
    IF v0.k = "Interface" /\ IsNil(v0) THEN {[ns |-> <<>>, H |-> H, panic |-> FALSE]}
    ELSE LET v1 == CASE v0.k \in {"Map", "Ptr"} /\ IsNil(v0) -> New(v0)
                     [] v0.k = "Interface" -> Elem(v0)
                     [] OTHER -> v0
             v == Deref(v1)
         IN  IF ~IsValid(v1) THEN {[ns |-> <<>>, H |-> H, panic |-> TRUE]}
             ELSE IF ImplementsNamer(v1) THEN {NamerNames(v1, prev, H)}
             ELSE CASE v.k = "Struct" -> namesStruct(v, prev, H, 1, <<>>)
                    [] v.k = "Map" ->
                         UNION {namesMap(v, prev, H, keys, <<>>) : keys \in Orders(StringKeys(v))}
                    [] OTHER -> {[ns |-> <<>>, H |-> H, panic |-> FALSE]}

namesStruct(v, prev, H, i, ns) ==
    IF i > Len(v.fields) THEN {[ns |-> ns, H |-> H, panic |-> FALSE]}
    ELSE LET f == v.fields[i]
             n == Field(f).name
             a == AppendStr(H, prev, n)
         IN  IF f.PkgPath # "" THEN namesStruct(v, prev, H, i + 1, ns)
             ELSE IF Transparent(f)
             THEN UNION {IF o.panic THEN {o}
                         ELSE namesStruct(v, prev, o.H, i + 1, ns \o o.ns)
                         : o \in names(f.val, prev, H)}
             ELSE UNION {IF o.panic THEN {o}
                         ELSE IF o.ns = <<>>
                         THEN LET b == AppendStr(o.H, prev, n)
                              IN  namesStruct(v, prev, b.H, i + 1, Append(ns, b.s))
                         ELSE namesStruct(v, prev, o.H, i + 1, ns \o o.ns)
                         : o \in names(f.val, a.s, a.H)}

namesMap(v, prev, H, keys, ns) ==
    IF keys = <<>> THEN {[ns |-> ns, H |-> H, panic |-> FALSE]}
    ELSE LET k == Head(keys)
             kv0 == MapIndex(v, k)
             kv1 == IF kv0.k = "Interface" THEN Elem(kv0) ELSE kv0
             kv == Deref(kv1)
             a == AppendStr(H, prev, k)
         IN  IF kv.k \in {"Map", "Struct"}
             THEN UNION {IF o.panic THEN {o}
                         ELSE namesMap(v, prev, o.H, Tail(keys), ns \o o.ns)
                         : o \in names(kv, a.s, a.H)}
             ELSE namesMap(v, prev, a.H, Tail(keys), Append(ns, a.s))

\* what the caller of names reads in an outcome: the paths, as strings
Paths(o) == [j \in 1..Len(o.ns) |-> ReadSlice(o.H, o.ns[j])]

\* Names(v): the outcomes of names(reflect.ValueOf(v), nil)
Names(v) == {[panic |-> o.panic, ns |-> Paths(o)] : o \in names(v, NilSlice, EmptyHeap)}

----------------------------------------------------------------------------
(* suggest, Namespace, Value.String *)

\* suggest(v, name): the set of outcomes [res, panic]; res is the []string
\* returned, in any of the orders the range over uniq may take
suggest(v, name) ==
    UNION {IF o.panic THEN {[res |-> <<>>, panic |-> TRUE]}
           ELSE LET nm == Paths(o)
                    uniq == {nm[j][1] : j \in {x \in 1..Len(nm) : Len(nm[x]) > 0}}
                    hits == {k \in uniq : MatchFold(k, name)}
                IN  {[res |-> r, panic |-> FALSE] : r \in Orders(hits)}
           : o \in names(v, NilSlice, EmptyHeap)}

\* the errors Namespace returns
NoError == [type |-> "nil", Ns |-> "", Suggestions |-> <<>>]

ErrNilValue == [type |-> "ErrNilValue", Ns |-> "", Suggestions |-> <<>>]

NamespaceError(ns, suggestions) == [type |-> "NamespaceError", Ns |-> ns, Suggestions |-> suggestions]

\* what a call of Namespace ends in: the (Value, error) returned, or a panic;
\* hook tells whether a Namespacer made the result, and from which argument
Returned(v, err) == [val |-> v, err |-> err, panic |-> FALSE, hook |-> [called |-> FALSE, arg |-> <<>>]]

Panicked == [val |-> Invalid, err |-> NoError, panic |-> TRUE, hook |-> [called |-> FALSE, arg |-> <<>>]]

\* the type assertions as they would be if no type implemented Namespacer
ImplementsNamespacerNever(v) == FALSE

\* i.(Namespacer), v.Interface().(Namespacer)
ImplementsNamespacer(v) == v.k = "Struct" /\ v.namespacer

\* an error of the caller's own
HookError == [type |-> "HookError", Ns |-> "", Suggestions |-> <<>>]

\* the Namespace method of a type of the caller's: it answers a path with a
\* value of its own, and a path that starts with "Keyy" with its own error
NamespacerNamespace(v, path) ==
    [val |-> IF path # <<>> /\ path[1] = "Keyy" THEN Invalid ELSE StrV("Hook"),
     err |-> IF path # <<>> /\ path[1] = "Keyy" THEN HookError ELSE NoError,
     panic |-> FALSE,
     hook |-> [called |-> TRUE, arg |-> path]]

\* the loop of Namespace from segment i on, v being the current value; the
\* set of the outcomes the call can have
RECURSIVE NamespaceLoop(_, _, _)

\* the loop as it would be if the error named the first segment of the path
\* and not the one that failed
NamespaceLoopNamingFirst(v, path, i) ==
    IF i > Len(path) THEN {Returned(v, NoError)}
    ELSE IF ~IsValid(v) THEN {Panicked}
    ELSE IF ImplementsNamespacer(v) THEN {NamespacerNamespace(v, SubSeq(path, i, Len(path)))}
    ELSE LET n == Get(v, path[i])
         IN  IF n.k = "Panic" THEN {Panicked}
             ELSE IF ~IsValid(n)
             THEN {IF s.panic THEN Panicked
                   ELSE Returned(Invalid, NamespaceError(path[1], s.res))
                   : s \in suggest(v, path[i])}
             ELSE NamespaceLoop(IF n.k = "Interface" THEN Elem(n) ELSE n, path, i + 1)

NamespaceLoop(v, path, i) ==
    IF i > Len(path) THEN {Returned(v, NoError)}
    ELSE IF ~IsValid(v) THEN {Panicked}
    ELSE IF ImplementsNamespacer(v) THEN {NamespacerNamespace(v, SubSeq(path, i, Len(path)))}
    ELSE LET n == Get(v, path[i])
         IN  IF n.k = "Panic" THEN {Panicked}
             ELSE IF ~IsValid(n)
             THEN {IF s.panic THEN Panicked
                   ELSE Returned(Invalid, NamespaceError(path[i], s.res))
                   : s \in suggest(v, path[i])}
             ELSE NamespaceLoop(IF n.k = "Interface" THEN Elem(n) ELSE n, path, i + 1)

\* Namespace as it would be with the empty path rejected before the walk
NamespaceRejectingEmpty(i, path) ==
    IF path = <<>> THEN {Returned(Invalid, [type |-> "ErrNoNamespace", Ns |-> "", Suggestions |-> <<>>])}
    ELSE IF ~IsValid(i) THEN {Returned(Invalid, ErrNilValue)}
    ELSE IF ImplementsNamespacer(i) THEN {NamespacerNamespace(i, path)}
    ELSE NamespaceLoop(i, path, 1)

\* Namespace as it would be without the test of i == nil
NamespaceWithoutNilTest(i, path) ==
    IF ImplementsNamespacer(i) THEN {NamespacerNamespace(i, path)}
    ELSE NamespaceLoop(i, path, 1)

\* Namespace(i, namespaces); i is given as reflect.ValueOf(i), the zero Value
\* for a nil i
Namespace(i, path) ==
    IF ~IsValid(i) THEN {Returned(Invalid, ErrNilValue)}
    ELSE IF ImplementsNamespacer(i) THEN {NamespacerNamespace(i, path)}
    ELSE NamespaceLoop(i, path, 1)

\* fmt.Sprint(v.Interface()) for the values that are not strings
RECURSIVE Sprint(_), SprintFields(_, _), SprintEntries(_, _)
Sprint(v) ==
    CASE v.k = "String" -> v.s
      [] v.k \in IntKinds \cup UintKinds -> ToString(v.n)
      [] v.k \in FloatKinds ->
           IF v.tenths = 0 THEN ToString(v.units)
           ELSE ToString(v.units) \o "." \o ToString(v.tenths)
      [] v.k = "Bool" -> IF v.b THEN "true" ELSE "false"
      [] v.k = "Interface" -> IF IsNil(v) THEN "<nil>" ELSE Sprint(v.elem)
      [] v.k = "Ptr" -> IF v.isNil THEN "<nil>" ELSE "&" \o Sprint(v.elem)
      [] v.k = "Struct" -> "{" \o SprintFields(v.fields, 1) \o "}"
      [] v.k = "Map" -> "map[" \o SprintEntries(v, Orders(DOMAIN v.entries)) \o "]"
      [] OTHER -> "<invalid>"

SprintFields(fields, i) ==
    IF i > Len(fields) THEN ""
    ELSE Sprint(fields[i].val) \o (IF i < Len(fields) THEN " " ELSE "") \o SprintFields(fields, i + 1)

SprintEntries(v, orders) ==
    IF DOMAIN v.entries = {} THEN ""
    ELSE LET keys == CHOOSE o \in orders : TRUE
         IN  SprintFields([j \in 1..Len(keys) |-> [val |-> StrV(keys[j] \o ":" \o Sprint(v.entries[keys[j]]))]], 1)

\* Value.String: [s |-> the string, panic |-> whether the call panicked];
\* reflect.Value.Interface panics on the zero Value
String(v) ==
    IF v.k = "String" THEN [s |-> v.s, panic |-> FALSE]
    ELSE IF ~IsValid(v) THEN [s |-> "", panic |-> TRUE]
    ELSE [s |-> Sprint(v), panic |-> FALSE]

\* IsNumber on the Kind of a Value; the zero Value has the Kind Invalid
IsNumber(v) ==
    CASE Kind(v) \in IntKinds -> TRUE
      [] Kind(v) \in FloatKinds -> TRUE
      [] OTHER -> FALSE

\* the result of Float and Int: the number, and whether an error came with it
Number(v) == [val |-> v, err |-> FALSE, panic |-> FALSE]

NotANumber == [val |-> Invalid, err |-> TRUE, panic |-> FALSE]

\* Float as it would be if it knew the float kinds alone
ValueFloatOfFloatsOnly(v) ==
    CASE Kind(v) \in FloatKinds -> Number(Sized("Float64", v))
      [] OTHER -> NotANumber

\* Value.Float: float64(v.Int()) for the int kinds, v.Float() for the float
\* kinds, an error for every other
ValueFloat(v) ==
    CASE Kind(v) \in IntKinds -> Number(FloatV(v.n, 0))
      [] Kind(v) \in FloatKinds -> Number(Sized("Float64", v))
      [] OTHER -> NotANumber

\* Value.Int: v.Int() for the int kinds, int64(v.Float()) for the float kinds
\* (the fraction is cut off), an error for every other
ValueInt(v) ==
    CASE Kind(v) \in IntKinds -> Number(Sized("Int64", v))
      [] Kind(v) \in FloatKinds -> Number(Sized("Int64", IntV(v.units)))
      [] OTHER -> NotANumber

----------------------------------------------------------------------------
(* the values the calls are made on *)

\* the longest path Namespace is called with
MaxPathLen == 2

\* the segments of those paths
Segments == {"Key", "Keyy", "Child", "rename", "Embedded", "-"}

RECURSIVE PathsOfLen(_)
PathsOfLen(n) ==
    IF n = 0 THEN {<<>>}
    ELSE {Append(p, s) : p \in PathsOfLen(n - 1), s \in Segments}

PathsUpTo(n) == UNION {PathsOfLen(m) : m \in 0..n}

\* what a field or a map entry can hold without nesting
Slots == {StrV("Value"), FloatV(1234, 5), NilIface, Iface(StrV("Value"))}

\* a value of every kind that Float and Int tell apart
Scalars ==
    {Sized(kd, IntV(7)) : kd \in IntKinds \cup UintKinds}
    \cup {Sized(kd, FloatV(1234, 5)) : kd \in FloatKinds}
    \cup {BoolV(TRUE), StrV("Value")}

\* type Embedded struct { Key ... }
Embedded(x) == Struct(<<Fld("Key", "", FALSE, x)>>)

WithChild(x) == Struct(<<Fld("Child", "", FALSE, x)>>)

\* a type that implements Namespacer and Namer
Hooked(v) == [v EXCEPT !.namespacer = TRUE, !.namer = TRUE]

\* the containers nested one level down
Inner ==
    {Embedded(x) : x \in Slots}
    \cup {MapOf("Key" :> x) : x \in Slots}
    \cup {WithChild(StrV("Value")),
          MapOf("Child" :> StrV("Value")),
          MapOf("Keyy" :> StrV("Value")),
          MapOf("key" :> StrV("Value") @@ "Keyy" :> StrV("Value")),
          MapOf("key" :> StrV("Value") @@ "Ke" :> StrV("Value")),
          MapOf("Key" :> WithChild(StrV("Value"))),
          NilMap,
          IntMap("1" :> StrV("Value")),
          NilPtr(Embedded(StrV(""))),
          PtrTo(Embedded(StrV("Value"))),
          Hooked(Embedded(StrV("Value")))}

Boxed == {Iface(v) : v \in {Embedded(StrV("Value")), WithChild(StrV("Value")),
                            MapOf("Child" :> Iface(StrV("Value"))),
                            NilPtr(Embedded(StrV("")))}}

\* the ways a struct field is declared: plain, renamed, passed through by
\* the tag, embedded, embedded and renamed
FieldShapes ==
    {[Name |-> "Key", Tag |-> "", Anonymous |-> FALSE],
     [Name |-> "Sub", Tag |-> "rename", Anonymous |-> FALSE],
     [Name |-> "Sub", Tag |-> "-", Anonymous |-> FALSE],
     [Name |-> "Embedded", Tag |-> "", Anonymous |-> TRUE],
     [Name |-> "Embedded", Tag |-> "rename", Anonymous |-> TRUE]}

Fields == {Fld(sh.Name, sh.Tag, sh.Anonymous, x) : sh \in FieldShapes, x \in Slots \cup Inner \cup Boxed}

\* the fields declared beside those
Siblings ==
    {Fld("Key", "", FALSE, StrV("Value")),
     Fld("Child", "", FALSE, WithChild(StrV("Value"))),
     Fld("Embedded", "rename", FALSE, StrV("Value")),
     Unexported("hidden", StrV("Value"))}

\* Go rejects a struct type that declares two fields of one name
Structs ==
    {Struct(<<f>>) : f \in Fields}
    \cup {Struct(fg) : fg \in {x \in (Fields \X Siblings) \cup (Siblings \X Fields) :
                                   x[1].Name # x[2].Name}}

Maps ==
    {MapOf("Key" :> x) : x \in Slots \cup Inner \cup Boxed}
    \cup {MapOf("Key" :> x @@ "Child" :> Iface(WithChild(StrV("Value")))) : x \in Slots \cup Inner}
    \cup {MapOf("Key" :> x) : x \in Scalars}
    \cup {NilMap, IntMap("1" :> StrV("Value")), IfaceMap("Key" :> StrV("Value"))}

\* struct { A struct { B struct { C struct { D, E string } } } }
Deep ==
    Struct(<<Fld("A", "", FALSE,
        Struct(<<Fld("B", "", FALSE,
            Struct(<<Fld("C", "", FALSE,
                Struct(<<Fld("D", "", FALSE, StrV("Value")),
                         Fld("E", "", FALSE, StrV("Value"))>>))>>))>>))>>)

\* struct { A struct { B string }; C string }, and records three deep with
\* two and with three leaves side by side
Nested ==
    {Struct(<<Fld("A", "", FALSE, Struct(<<Fld("B", "", FALSE, StrV("x"))>>)),
              Fld("C", "", FALSE, StrV("y"))>>),
     Struct(<<Fld("A", "", FALSE,
         Struct(<<Fld("B", "", FALSE,
             Struct(<<Fld("D", "", FALSE, StrV("Value")),
                      Fld("E", "", FALSE, StrV("Value"))>>))>>))>>),
     Struct(<<Fld("A", "", FALSE,
         Struct(<<Fld("B", "", FALSE, StrV("Value")),
                  Fld("C", "", FALSE, StrV("Value")),
                  Fld("D", "", FALSE, StrV("Value"))>>))>>)}

Roots ==
    Structs \cup Maps \cup Inner \cup Scalars \cup Nested
    \cup {PtrTo(Embedded(StrV("Value"))), NilPtr(Embedded(StrV(""))), NilPtr(NilMap),
          Hooked(Embedded(StrV("Value"))), Deep, StrV("Value"), Invalid}

----------------------------------------------------------------------------
(* the calls *)

NoResult == Returned(Invalid, NoError)

Init ==
    /\ root \in Roots
    /\ namespaces = <<>>
    /\ pc = "start"
    /\ res = NoResult
    /\ nms = [panic |-> FALSE, ns |-> <<>>]
    /\ str = [s |-> "", panic |-> FALSE]
    /\ num = NotANumber

\* Namespace(root, p)
Resolve ==
    /\ pc = "start"
    /\ \E p \in PathsUpTo(MaxPathLen) :
          /\ namespaces' = p
          /\ res' \in Namespace(root, p)
    /\ pc' = "resolved"
    /\ UNCHANGED <<root, nms, str, num>>

\* Names(root)
Enumerate ==
    /\ pc = "start"
    /\ nms' \in Names(root)
    /\ pc' = "named"
    /\ UNCHANGED <<root, namespaces, res, str, num>>

\* Namespace(root, p) for a p that Names(root) returned
ResolveName ==
    /\ pc = "named"
    /\ ~nms.panic
    /\ \E j \in 1..Len(nms.ns) :
          /\ namespaces' = nms.ns[j]
          /\ res' \in Namespace(root, nms.ns[j])
    /\ pc' = "roundtrip"
    /\ UNCHANGED <<root, nms, str, num>>

\* String() of the Value a call of Namespace returned with a nil error
AsString ==
    /\ pc \in {"resolved", "roundtrip"}
    /\ ~res.panic
    /\ res.err.type = "nil"
    /\ str' = String(res.val)
    /\ pc' = "string"
    /\ UNCHANGED <<root, namespaces, res, nms, num>>

\* Float() of the Value a call of Namespace returned with a nil error
AsFloat ==
    /\ pc \in {"resolved", "roundtrip"}
    /\ ~res.panic
    /\ res.err.type = "nil"
    /\ num' = ValueFloat(res.val)
    /\ pc' = "float"
    /\ UNCHANGED <<root, namespaces, res, nms, str>>

\* Int() of the Value a call of Namespace returned with a nil error
AsInt ==
    /\ pc \in {"resolved", "roundtrip"}
    /\ ~res.panic
    /\ res.err.type = "nil"
    /\ num' = ValueInt(res.val)
    /\ pc' = "int"
    /\ UNCHANGED <<root, namespaces, res, nms, str>>

Next == Resolve \/ Enumerate \/ ResolveName \/ AsString \/ AsFloat \/ AsInt

Spec == Init /\ [][Next]_vars

----------------------------------------------------------------------------
(* the specification's vocabulary, stated on the values and not through the *)
(* package's functions                                                      *)

\* a call of Namespace that returned a value and a nil error
Ok(r) == ~r.panic /\ r.err.type = "nil"

\* a call of Namespace that returned a NamespaceError
NotFound(r) == ~r.panic /\ r.err.type = "NamespaceError"

\* a boxed value, one layer unwrapped
Unbox(v) == IF v.k = "Interface" THEN v.elem ELSE v

\* the container behind the boxes and pointers of v
Shape(v) == Deref(Unbox(v))

\* section 6: the tag `-` marks a field transparent, embedded fields default
\* to transparent, any other tag renames the field
SpecTransparent(f) == f.Tag = "-" \/ (f.Anonymous /\ f.Tag = "")

SpecName(f) == IF f.Tag # "" THEN f.Tag ELSE f.Name

\* the fields of a record that reflection shows
Shown(v) == {i \in 1..Len(v.fields) : v.fields[i].PkgPath = ""}

\* the names visible at the level of v, flattened through transparent fields
RECURSIVE VisibleNames(_)
VisibleNames(v0) ==
    LET v == Shape(v0)
    IN  CASE v.k = "Struct" ->
               UNION {IF SpecTransparent(v.fields[i]) THEN VisibleNames(v.fields[i].val)
                      ELSE {SpecName(v.fields[i])} : i \in Shown(v)}
          [] v.k = "Map" /\ v.keyKind = "String" -> DOMAIN v.entries
          [] OTHER -> {}

\* how many fields or keys at the level of v show the name n
RECURSIVE Count(_, _), CountFields(_, _, _)
Count(v0, n) ==
    LET v == Shape(v0)
    IN  CASE v.k = "Struct" -> CountFields(v, n, 1)
          [] v.k = "Map" /\ v.keyKind = "String" -> IF n \in DOMAIN v.entries THEN 1 ELSE 0
          [] OTHER -> 0

CountFields(v, n, i) ==
    IF i > Len(v.fields) THEN 0
    ELSE CountFields(v, n, i + 1)
         + (IF i \notin Shown(v) THEN 0
            ELSE IF SpecTransparent(v.fields[i]) THEN Count(v.fields[i].val, n)
            ELSE IF SpecName(v.fields[i]) = n THEN 1 ELSE 0)

\* the values directly inside v
Children(v0) ==
    LET v == Shape(v0)
    IN  CASE v.k = "Struct" -> {v.fields[i].val : i \in Shown(v)}
          [] v.k = "Map" -> {v.entries[k] : k \in DOMAIN v.entries}
          [] OTHER -> {}

\* section 3: no two naming rules give one visible name at one level, at any
\* depth of v
RECURSIVE Unambiguous(_)
Unambiguous(v) ==
    /\ \A n \in VisibleNames(v) : Count(v, n) = 1
    /\ \A c \in Children(v) : Unambiguous(c)

\* v holds no value with a hook (Namespacer, Namer)
RECURSIVE NoHooks(_)
NoHooks(v0) ==
    LET v == Shape(v0)
    IN  /\ v.k = "Struct" => ~v.namespacer /\ ~v.namer
        /\ \A c \in Children(v) : NoHooks(c)

\* every mapping in v has string keys
RECURSIVE StringKeyed(_)
StringKeyed(v0) ==
    LET v == Shape(v0)
    IN  /\ v.k = "Map" => v.keyKind = "String"
        /\ \A c \in Children(v) : StringKeyed(c)

\* the roots section 3 describes: records, string-keyed mappings, boxes and
\* scalars, with unambiguous names and no hook
Generic(v) == NoHooks(v) /\ StringKeyed(v) /\ Unambiguous(v)

\* Names meets a nil pointer to a record: v is one, or a record field that
\* Names descends into is one (a nil pointer that is a mapping entry, or is
\* boxed in an interface, is a leaf for Names)
RECURSIVE NilRecordPtr(_), NilRecordPtrIn(_)
NilRecordPtr(v0) ==
    CASE v0.k = "Ptr" /\ v0.isNil -> Deref(v0.elem).k = "Struct"
      [] v0.k = "Interface" -> NilRecordPtrIn(Deref(v0.elem))
      [] OTHER -> NilRecordPtrIn(Deref(v0))

NilRecordPtrIn(v) ==
    CASE v.k = "Struct" -> \E i \in Shown(v) : NilRecordPtr(v.fields[i].val)
      [] v.k = "Map" -> \E c \in Children(v) : Shape(c).k \in {"Struct", "Map"} /\ NilRecordPtrIn(Shape(c))
      [] OTHER -> FALSE

----------------------------------------------------------------------------
(* C1 *)

\* C1: every path that Names(root) returns resolves: Namespace(root, p)
\* returns a value and no error, for every root of records, string-keyed
\* mappings, pointers and boxed values, roots with nil pointers included
C1_RoundTrip ==
    (pc = "roundtrip" /\ Generic(root)) => Ok(res)

\* the same, for the roots in which Names meets no nil pointer to a record
RoundTripWithoutNilPointer ==
    (pc = "roundtrip" /\ Generic(root) /\ ~NilRecordPtr(root)) => Ok(res)

----------------------------------------------------------------------------
(* C2, C3 *)

\* C2: Namespace(root, []) fails with the error of the empty path (NoPath),
\* for every root, and never returns the root itself
C2_EmptyPathRejected ==
    (pc = "resolved" /\ namespaces = <<>>)
        => (~res.panic /\ res.err.type = "ErrNoNamespace" /\ res.val = Invalid)

\* C2, amended: Namespace(root, []) never fails for want of a path: a nil
\* root fails with ErrNilValue, a root that implements Namespacer is handed
\* the empty path and its answer is returned, and every other root is
\* returned itself, with a nil error
C2_EmptyPathReturnsRoot ==
    (pc = "resolved" /\ namespaces = <<>>)
        => CASE root = Invalid -> res = Returned(Invalid, ErrNilValue)
             [] root.k = "Struct" /\ root.namespacer ->
                  res.hook.called /\ res.hook.arg = <<>>
             [] OTHER -> res = Returned(root, NoError)

C2_Witness ==
    pc = "resolved" /\ namespaces = <<>> /\ root.k = "Map" /\ res.val = root /\ Ok(res)

\* C3: Namespace(nil, p) fails with ErrNilValue for every non-empty p; no
\* value is returned and nothing panics
C3_NilRoot ==
    (pc = "resolved" /\ root = Invalid /\ namespaces # <<>>)
        => (~res.panic /\ res.err = ErrNilValue /\ res.val = Invalid /\ ~res.hook.called)

C3_Witness ==
    pc = "resolved" /\ root = Invalid /\ Len(namespaces) = MaxPathLen /\ res.err = ErrNilValue

----------------------------------------------------------------------------
(* C4 *)

\* the child of v that the name n shows: a field of that visible name, an
\* entry under that key; the zero Value when there is none
NamedChild(v0, n) ==
    LET v == Shape(v0)
    IN  CASE v.k = "Struct" ->
               LET hits == {i \in Shown(v) : ~SpecTransparent(v.fields[i]) /\ SpecName(v.fields[i]) = n}
               IN  IF hits = {} THEN Invalid ELSE v.fields[MinOf(hits)].val
          [] v.k = "Map" /\ v.keyKind = "String" ->
               IF n \in DOMAIN v.entries THEN v.entries[n] ELSE Invalid
          [] OTHER -> Invalid

\* the value stored in v at the path p, each segment naming a field or key
RECURSIVE StoredAt(_, _)
StoredAt(v, p) ==
    IF p = <<>> THEN Unbox(v)
    ELSE StoredAt(NamedChild(v, Head(p)), Tail(p))

\* a root built from records with plain fields, string-keyed mappings and
\* boxed values only
RECURSIVE Plain(_)
Plain(v) ==
    /\ v.k \in {"Struct", "Map", "Interface", "String", "Float64"}
    /\ v.k = "Struct" =>
          /\ ~v.namespacer /\ ~v.namer
          /\ \A i \in 1..Len(v.fields) :
                v.fields[i].PkgPath = "" /\ v.fields[i].Tag = "" /\ ~v.fields[i].Anonymous
    /\ v.k = "Map" => v.keyKind = "String"
    /\ v.k = "Interface" => v.elem.k # "Invalid"
    /\ \A c \in Children(v) : Plain(c)

\* C4: for a root of records and string-keyed mappings, nested and boxed in
\* any way, and a path that names an existing field or key at every level,
\* Namespace succeeds, and String() of its Value is the string stored there
C4_StoredLeaf ==
    (Plain(root) /\ namespaces # <<>> /\ StoredAt(root, namespaces).k = "String")
        => /\ pc \in {"resolved", "roundtrip"} =>
                 Ok(res) /\ res.val = StoredAt(root, namespaces)
           /\ pc = "string" =>
                 ~str.panic /\ str.s = StoredAt(root, namespaces).s

\* the README's and the tests' case: a record inside a boxed mapping entry
C4_Witness ==
    /\ pc = "string"
    /\ root = MapOf("Key" :> Iface(WithChild(StrV("Value"))))
    /\ namespaces = <<"Key", "Child">>
    /\ str.s = "Value"

----------------------------------------------------------------------------
(* C5, C6 *)

\* the field f shows the name n at the level of its record
FieldShows(f, n) ==
    IF SpecTransparent(f) THEN n \in VisibleNames(f.val) ELSE SpecName(f) = n

\* the record root, looked into with the one-segment path <<n>>
AtRecord(n) ==
    /\ pc = "resolved"
    /\ namespaces = <<n>>
    /\ root.k = "Struct" /\ NoHooks(root) /\ StringKeyed(root)

\* field i of the root is transparent and its value has a child named n that
\* no earlier field shows
TransparentChild(i, n) ==
    /\ i \in Shown(root)
    /\ SpecTransparent(root.fields[i])
    /\ IsValid(NamedChild(root.fields[i].val, n))
    /\ \A j \in Shown(root) : j < i => ~FieldShows(root.fields[j], n)

\* C5: when a record has a transparent field (embedded and not renamed, or
\* tagged `-`) whose value has a child named K, Namespace(root, [K]) returns
\* that child's value: the transparent field takes no segment of the path
C5_TransparentChild ==
    Len(namespaces) = 1 =>
        \A i \in 1..2 :
            (AtRecord(namespaces[1]) /\ TransparentChild(i, namespaces[1]))
                => (Ok(res) /\ res.val = Unbox(NamedChild(root.fields[i].val, namespaces[1])))

\* the test's struct/embedded case
C5_Witness ==
    /\ AtRecord("Key")
    /\ root = Struct(<<Fld("Embedded", "", TRUE, Embedded(StrV("Value")))>>)
    /\ res.val = StrV("Value")

\* field i of the root is renamed: it has an ns tag that is not `-`
Renamed(i) ==
    /\ root.k = "Struct" /\ NoHooks(root) /\ StringKeyed(root)
    /\ i \in Shown(root)
    /\ root.fields[i].Tag \notin {"", "-"}

\* C6: a field renamed X is reached by the segment X; the segment of its
\* declared name does not match it (NamespaceError, unless the name is
\* visible otherwise); its children are reached under the prefix X and not
\* without it
C6_Renamed ==
    \A i \in 1..2 :
        (pc = "resolved" /\ Renamed(i) /\ namespaces # <<>>)
            => LET f == root.fields[i]
                   X == f.Tag
                   first == \A j \in Shown(root) : j < i => ~FieldShows(root.fields[j], X)
               IN  /\ (namespaces = <<X>> /\ first)
                          => (Ok(res) /\ res.val = Unbox(f.val))
                   /\ (namespaces = <<f.Name>> /\ f.Name \notin VisibleNames(root))
                          => (NotFound(res) /\ res.err.Ns = f.Name)
                   /\ (Len(namespaces) = 2 /\ namespaces[1] = X /\ first
                          /\ IsValid(NamedChild(f.val, namespaces[2])))
                          => (Ok(res) /\ res.val = Unbox(NamedChild(f.val, namespaces[2])))
                   /\ (Len(namespaces) = 1 /\ namespaces[1] \in VisibleNames(f.val)
                          /\ namespaces[1] \notin VisibleNames(root))
                          => (NotFound(res) /\ res.err.Ns = namespaces[1])

\* a field renamed "rename" holding a record: found under rename.Child
C6_Witness ==
    /\ pc = "resolved"
    /\ root = Struct(<<Fld("Sub", "rename", FALSE, WithChild(StrV("Value")))>>)
    /\ namespaces = <<"rename", "Child">>
    /\ res.val = StrV("Value")

\* and not under Child alone
C6_WitnessBare ==
    /\ pc = "resolved"
    /\ root = Struct(<<Fld("Sub", "rename", FALSE, WithChild(StrV("Value")))>>)
    /\ namespaces = <<"Child">>
    /\ NotFound(res)

----------------------------------------------------------------------------
(* C7 *)

\* a call of Namespace has been made and has returned a NamespaceError
Failed == pc \in {"resolved", "roundtrip"} /\ NotFound(res)

\* the segment at i is the first without a match: the path before it
\* resolves, the path up to it does not
FirstUnmatched(i) ==
    /\ \A r \in Namespace(root, SubSeq(namespaces, 1, i - 1)) : Ok(r)
    /\ \A r \in Namespace(root, SubSeq(namespaces, 1, i)) : NotFound(r)

\* the value the path before segment i resolves to
LevelBefore(i) == (CHOOSE r \in Namespace(root, SubSeq(namespaces, 1, i - 1)) : TRUE).val

\* C7: the error of an unmatched segment carries the failing segment (the
\* first without a match), the full path attempted, and the suggestions;
\* no value comes with it
C7_CarriesPath ==
    Failed
        => /\ res.val = Invalid
           /\ \E i \in 1..Len(namespaces) : res.err.Ns = namespaces[i] /\ FirstUnmatched(i)
           /\ "Suggestions" \in DOMAIN res.err
           /\ "Path" \in DOMAIN res.err /\ res.err.Path = namespaces

\* C7, amended: the error carries the failing segment and the suggestions
\* made at the level where it failed, and nothing else: the path is not in
\* it; no value comes with it
C7_CarriesSegment ==
    Failed
        => /\ res.val = Invalid
           /\ DOMAIN res.err = {"type", "Ns", "Suggestions"}
           /\ \E i \in 1..Len(namespaces) :
                 /\ res.err.Ns = namespaces[i]
                 /\ FirstUnmatched(i)
                 /\ \E s \in suggest(LevelBefore(i), namespaces[i]) : res.err.Suggestions = s.res

\* the second segment fails, at a level that has a name to suggest
C7_Witness ==
    /\ Failed
    /\ Len(namespaces) = 2
    /\ namespaces[1] # namespaces[2]
    /\ res.err.Ns = namespaces[2]
    /\ res.err.Suggestions # <<>>

----------------------------------------------------------------------------
(* C8, C9, C10 *)

\* the two names are equal when case is ignored
FoldEq(a, b) ==
    /\ Len(Runes(a)) = Len(Runes(b))
    /\ \A j \in 1..Len(Runes(a)) : ToLower(Runes(a)[j]) = ToLower(Runes(b)[j])

\* how far the name a is from the segment b: nothing for a match but for
\* case, and more the more their lengths differ
Distance(a, b) ==
    IF FoldEq(a, b) THEN 0
    ELSE IF Len(Runes(a)) > Len(Runes(b)) THEN 1 + Len(Runes(a)) - Len(Runes(b))
    ELSE 1 + Len(Runes(b)) - Len(Runes(a))

\* there is a nil pointer somewhere in v
RECURSIVE HasNilPointer(_)
HasNilPointer(v) ==
    CASE v.k = "Ptr" -> v.isNil \/ HasNilPointer(v.elem)
      [] v.k = "Interface" -> HasNilPointer(v.elem)
      [] v.k = "Struct" -> \E i \in 1..Len(v.fields) : HasNilPointer(v.fields[i].val)
      [] v.k = "Map" -> \E n \in DOMAIN v.entries : HasNilPointer(v.entries[n])
      [] OTHER -> FALSE

\* C8: the suggestions of a NamespaceError have no duplicates, are names
\* visible at the level where the segment failed, come in descending
\* closeness to the segment, and start with the name that equals the segment
\* but for case when there is one
C8_SuggestionsOrdered ==
    (Failed /\ NoHooks(root) /\ StringKeyed(root) /\ ~HasNilPointer(root))
        => \E i \in 1..Len(namespaces) :
              LET s == res.err.Suggestions
                  seg == res.err.Ns
                  visible == VisibleNames(LevelBefore(i))
              IN  /\ seg = namespaces[i] /\ FirstUnmatched(i)
                  /\ \A j, k \in 1..Len(s) : j # k => s[j] # s[k]
                  /\ \A j \in 1..Len(s) : s[j] \in visible
                  /\ \A j, k \in 1..Len(s) : j < k => Distance(s[j], seg) <= Distance(s[k], seg)
                  /\ (\E n \in visible : FoldEq(n, seg)) => (s # <<>> /\ FoldEq(s[1], seg))

\* the key k is the segment s with extra characters
Extends(k, s) ==
    /\ Len(Runes(k)) > Len(Runes(s))
    /\ SubSeq(Runes(k), 1, Len(Runes(s))) = Runes(s)

\* C9: when a segment S has no match in a mapping that has a key which is S
\* with extra characters, Namespace fails with a NamespaceError for S whose
\* suggestions contain that key
C9_NearMissSuggested ==
    (/\ pc = "resolved"
     /\ root.k = "Map" /\ root.keyKind = "String"
     /\ Len(namespaces) = 1
     /\ namespaces[1] \notin DOMAIN root.entries)
        => \A k \in DOMAIN root.entries :
              Extends(k, namespaces[1])
                  => /\ NotFound(res)
                     /\ res.err.Ns = namespaces[1]
                     /\ \E j \in 1..Len(res.err.Suggestions) : res.err.Suggestions[j] = k

\* C10: String() of every Value that Namespace returned with a nil error
\* returns a string; it never panics, a nil leaf included
C10_StringTotal == pc = "string" => ~str.panic

----------------------------------------------------------------------------
(* C11 *)

\* C11: Float() returns without error exactly when IsNumber is true of the
\* value, and so does Int(); where IsNumber is false both return an error,
\* and neither ever panics
C11_AgreesWithIsNumber ==
    pc \in {"float", "int"}
        => /\ ~num.panic
           /\ ~num.err <=> IsNumber(res.val)
           /\ ~num.err => num.val.k = (IF pc = "float" THEN "Float64" ELSE "Int64")

\* Int() has cut a float32 down to an int64
C11_Witness ==
    /\ pc = "int"
    /\ res.val.k = "Float32"
    /\ num = Number(Sized("Int64", IntV(1234)))

\* Float() has refused a uint
C11_WitnessRefused ==
    /\ pc = "float"
    /\ res.val.k = "Uint"
    /\ num.err

----------------------------------------------------------------------------
(* C12 *)

\* a record with no tags, no embedded and no hidden fields, whose fields are
\* strings or records of that sort
RECURSIVE UntaggedRecord(_)
UntaggedRecord(v) ==
    /\ v.k = "Struct" /\ ~v.namer /\ v.fields # <<>>
    /\ \A i \in 1..Len(v.fields) :
          /\ v.fields[i].Tag = "" /\ ~v.fields[i].Anonymous /\ v.fields[i].PkgPath = ""
          /\ v.fields[i].val.k = "String" \/ UntaggedRecord(v.fields[i].val)

\* one path per leaf field, in declaration order: the field names from the
\* root to the leaf
RECURSIVE LeafPaths(_, _), LeafPathsFrom(_, _, _)
LeafPaths(v, prev) == IF v.k = "Struct" THEN LeafPathsFrom(v, prev, 1) ELSE <<prev>>

LeafPathsFrom(v, prev, i) ==
    IF i > Len(v.fields) THEN <<>>
    ELSE LeafPaths(v.fields[i].val, Append(prev, v.fields[i].Name)) \o LeafPathsFrom(v, prev, i + 1)

\* how many records deep the leaves of v lie, at most
RECURSIVE Depth(_)
Depth(v) ==
    IF v.k # "Struct" THEN 0
    ELSE 1 + MinOf({d \in 0..8 : \A i \in 1..Len(v.fields) : Depth(v.fields[i].val) <= d})

\* C12: Names on an untagged record of records, at any nesting depth and
\* with any number of leaf fields side by side, returns exactly one path per
\* leaf field, in declaration order, each the field names from the root to
\* that leaf
C12_DeclarationOrder ==
    (pc = "named" /\ UntaggedRecord(root))
        => /\ ~nms.panic
           /\ nms.ns = LeafPaths(root, <<>>)

\* the same, for the records whose leaves lie at most three records deep
DeclarationOrderToDepthThree ==
    (pc = "named" /\ UntaggedRecord(root) /\ Depth(root) <= 3)
        => /\ ~nms.panic
           /\ nms.ns = LeafPaths(root, <<>>)

----------------------------------------------------------------------------
(* C13 *)

\* v exposes the self-describing resolution hook
ExposesHook(v) == v.k = "Struct" /\ v.namespacer

\* what the hook of a value answers to a path: its value and its error
HookAnswer(path) ==
    IF path # <<>> /\ path[1] = "Keyy" THEN [val |-> Invalid, err |-> HookError]
    ELSE [val |-> StrV("Hook"), err |-> NoError]

\* the current value at segment index i (from 0) exposes the hook: the i
\* segments before resolve, by generic traversal, to a value that does
CurrentExposesHook(i) ==
    IF i = 0 THEN ExposesHook(root)
    ELSE /\ i < Len(namespaces)
         /\ \A r \in Namespace(root, SubSeq(namespaces, 1, i)) :
               Ok(r) /\ ~r.hook.called /\ ExposesHook(r.val)

\* C13: when the current value at a segment index i (the root, at 0,
\* included) exposes the hook, Namespace calls the hook with exactly the
\* segments from i on and returns what the hook returned, value or error
C13_HookDelegation ==
    pc = "resolved"
        => \A i \in 0..Len(namespaces) :
              CurrentExposesHook(i)
                  => /\ ~res.panic
                     /\ res.hook.called
                     /\ res.hook.arg = SubSeq(namespaces, i + 1, Len(namespaces))
                     /\ res.val = HookAnswer(res.hook.arg).val
                     /\ res.err = HookAnswer(res.hook.arg).err

\* the hook of the value under the first segment was given the second
\* segment alone, and its error came back
C13_Witness ==
    /\ pc = "resolved"
    /\ ~ExposesHook(root)
    /\ Len(namespaces) = 2
    /\ res.hook.called
    /\ res.hook.arg = <<"Keyy">>
    /\ res.err = HookError

\* the hook of the root was given the whole path
C13_WitnessRoot ==
    /\ pc = "resolved"
    /\ ExposesHook(root)
    /\ Len(namespaces) = 2
    /\ res.hook.arg = namespaces
    /\ res.val = StrV("Hook")

----------------------------------------------------------------------------
(* C14 *)

\* the first i segments resolve, by generic traversal, to the value v
ResolvesTo(i, v) ==
    \A r \in Namespace(root, SubSeq(namespaces, 1, i)) :
        Ok(r) /\ ~r.hook.called /\ r.val = v

\* the value i segments down the path
ValueAt(i) == (CHOOSE r \in Namespace(root, SubSeq(namespaces, 1, i)) : TRUE).val

\* a nil pointer, a nil mapping, or what is left of a nil interface value
\* once Namespace has unwrapped it
NilValue(v) == ~IsValid(v) \/ (v.k \in {"Ptr", "Map"} /\ v.isNil)

\* a proper prefix of the path, of i segments, each a name visible at its
\* level, resolves to such a value
NilMidPath(i) ==
    /\ i < Len(namespaces)
    /\ ResolvesTo(i, ValueAt(i))
    /\ \A j \in 1..i : namespaces[j] \in VisibleNames(ValueAt(j - 1))
    /\ NilValue(ValueAt(i))

\* C14: when a proper prefix of the path resolves to a nil pointer, a nil
\* mapping or a nil interface value, Namespace returns a NamespaceError for
\* the next segment and does not panic
C14_NilMidPath ==
    pc = "resolved"
        => \A i \in 0..Len(namespaces) :
              NilMidPath(i) => (NotFound(res) /\ res.err.Ns = namespaces[i + 1])

\* the same, for the nil pointers and the nil mappings
NilPointerOrMapMidPath ==
    pc = "resolved"
        => \A i \in 0..Len(namespaces) :
              (NilMidPath(i) /\ IsValid(ValueAt(i)))
                  => (NotFound(res) /\ res.err.Ns = namespaces[i + 1])

\* a nil pointer, and a nil mapping, under the first segment
NilPointerMidPathReached ==
    pc = "resolved" /\ Len(namespaces) = 2 /\ NilMidPath(1) /\ ValueAt(1).k = "Ptr"

NilMapMidPathReached ==
    pc = "resolved" /\ Len(namespaces) = 2 /\ NilMidPath(1) /\ ValueAt(1).k = "Map"

----------------------------------------------------------------------------
(* C15 *)

\* the current value at segment index i (from 0) is a mapping whose key type
\* is not string
NonStringKeyedAt(i) ==
    /\ i < Len(namespaces)
    /\ ResolvesTo(i, ValueAt(i))
    /\ \A j \in 1..i : namespaces[j] \in VisibleNames(ValueAt(j - 1))
    /\ Shape(ValueAt(i)).k = "Map"
    /\ Shape(ValueAt(i)).keyKind # "String"

\* C15: when the current value is a mapping whose key type is not string, no
\* segment matches on it: Namespace returns a NamespaceError for the segment,
\* with its suggestions, and neither panics nor returns a value
C15_NonStringKeysNeverMatch ==
    pc = "resolved"
        => \A i \in 0..Len(namespaces) :
              NonStringKeyedAt(i)
                  => /\ NotFound(res)
                     /\ res.err.Ns = namespaces[i + 1]
                     /\ res.val = Invalid

----------------------------------------------------------------------------
(* C16 *)

\* the first segments of the paths that Names returns for v
FirstSegments(v) ==
    UNION {{o.ns[j][1] : j \in {j \in 1..Len(o.ns) : o.ns[j] # <<>>}} : o \in Names(v)}

\* the names the transparent fields of the record v have for themselves: the
\* tag `-`, or the name of the embedded type
OwnNames(v) ==
    {SpecName(v.fields[i]) : i \in {i \in Shown(v) : SpecTransparent(v.fields[i])}}

\* one segment is looked up on a record with no hooks, no nil pointers and
\* no name shown twice
AtPlainRecord ==
    /\ pc = "resolved"
    /\ Len(namespaces) = 1
    /\ root.k = "Struct"
    /\ Generic(root)
    /\ ~HasNilPointer(root)

\* C16: no segment resolves to a transparent field itself, neither `-` nor
\* the name of the embedded type: the first segments Namespace accepts at a
\* level are the first segments of Names at that level
C16_NoSegmentOfItsOwn ==
    AtPlainRecord => (Ok(res) <=> namespaces[1] \in FirstSegments(root))

\* the same, for the segments that are not a transparent field's own name
AcceptedButForOwnNames ==
    (AtPlainRecord /\ namespaces[1] \notin OwnNames(root))
        => (Ok(res) <=> namespaces[1] \in FirstSegments(root))

====
